---- MODULE Spec2Model ----
(***************************************************************************)
(* Vehicle Diagnostic Assistant API: the four request handlers of main.py, *)
(* the four LLM gateway functions of llm_client.py and the pydantic models *)
(* of schemas.py.                                                          *)
(*                                                                         *)
(* JSON values (what json.loads returns) are tagged records [k, v]:        *)
(*   k = "str" v = a string      k = "int"  v = an integer                 *)
(*   k = "null"                  k = "bool" v = a boolean                  *)
(*   k = "arr" v = a sequence    k = "obj"  v = a function on string keys  *)
(* A reply text is a sequence of one-character strings.  The character "D" *)
(* stands for the text of one complete JSON document (the reply's doc), so *)
(* that fence stripping and parsing work on characters while documents are *)
(* kept as values.                                                         *)
(***************************************************************************)
EXTENDS Integers, Sequences, FiniteSets, TLC

VARIABLES pc, op, imageOk, reply, llm_result, result, calls,
          fStage, fOp, fText, fDoc, fPlain, fWrapped, fOnce, fTwice

vars == <<pc, op, imageOk, reply, llm_result, result, calls,
          fStage, fOp, fText, fDoc, fPlain, fWrapped, fOnce, fTwice>>

reqVars == <<pc, op, imageOk, reply, llm_result, result, calls>>

fenceVars == <<fStage, fOp, fText, fDoc, fPlain, fWrapped, fOnce, fTwice>>

(* ------------------------------ bounds -------------------------------- *)

\* Number of requests served concurrently.
NReq == 2

\* Longest reply text of the fence-stripping specification.
MaxLen == 4

\* Cap on the outbound-call counter of one request.
MaxCalls == 3

Reqs == 1..NReq

(* ---------------------------- JSON values ----------------------------- *)

JStr(s) == [k |-> "str", v |-> s]

JInt(n) == [k |-> "int", v |-> n]

JBool(b) == [k |-> "bool", v |-> b]

JNull == [k |-> "null", v |-> 0]

JArr(items) == [k |-> "arr", v |-> items]

JObj(f) == [k |-> "obj", v |-> f]

\* A key that is absent from a mapping.
Missing == [k |-> "missing", v |-> 0]

\* The outcome of a parse or of a validation that raised.
Invalid == [k |-> "invalid", v |-> 0]

Field(d, key) == IF key \in DOMAIN d THEN d[key] ELSE Missing

\* The object holding the present fields of f.
MkObj(f) == JObj([key \in {x \in DOMAIN f : f[x].k # "missing"} |-> f[key]])

(* ------------------------- schemas.py models -------------------------- *)

\* int(s) for the strings of the model: "2018" is the one numeric string.
IntOfStr(s) == IF s = "2018" THEN 2018 ELSE -1

\* A field annotated str: pydantic accepts a str only.
validate_str(x) == IF x.k = "str" THEN x ELSE Invalid

\* A field annotated int: an int, or a numeric str parsed to its int.
validate_int(x) ==
    IF x.k = "int" THEN x
    ELSE IF x.k = "str" /\ IntOfStr(x.v) # -1 THEN JInt(IntOfStr(x.v))
    ELSE Invalid

SeverityLevels == {"CRITICAL", "CAUTION", "INFORMATION"}

\* A level field that accepts any str.
LiteralAny(x) == validate_str(x)

\* Literal["CRITICAL", "CAUTION", "INFORMATION"]
validate_level(x) == IF x.k = "str" /\ x.v \in SeverityLevels THEN x ELSE Invalid

\* class Problem(BaseModel): name: str, description: str
Problem(x) ==
    IF x.k # "obj" THEN Invalid
    ELSE LET name == validate_str(Field(x.v, "name"))
             description == validate_str(Field(x.v, "description"))
         IN  IF name.k = "invalid" \/ description.k = "invalid" THEN Invalid
             ELSE JObj([name |-> name, description |-> description])

\* class Severity(BaseModel): level: Literal[...], message: str
Severity(x) ==
    IF x.k # "obj" THEN Invalid
    ELSE LET level == validate_level(Field(x.v, "level"))
             message == validate_str(Field(x.v, "message"))
         IN  IF level.k = "invalid" \/ message.k = "invalid" THEN Invalid
             ELSE JObj([level |-> level, message |-> message])

\* class EstimatedCost(BaseModel): range: str, disclaimer: str
EstimatedCost(x) ==
    IF x.k # "obj" THEN Invalid
    ELSE LET range == validate_str(Field(x.v, "range"))
             disclaimer == validate_str(Field(x.v, "disclaimer"))
         IN  IF range.k = "invalid" \/ disclaimer.k = "invalid" THEN Invalid
             ELSE JObj([range |-> range, disclaimer |-> disclaimer])

\* List[Problem]: a list whose every item validates as a Problem.
ListOfProblem(x) ==
    IF x.k # "arr" THEN Invalid
    ELSE LET items == [i \in DOMAIN x.v |-> Problem(x.v[i])]
         IN  IF \E i \in DOMAIN items : items[i].k = "invalid" THEN Invalid
             ELSE JArr(items)

\* List[str]: a list whose every item is a str.
ListOfStr(x) ==
    IF x.k # "arr" THEN Invalid
    ELSE LET items == [i \in DOMAIN x.v |-> validate_str(x.v[i])]
         IN  IF \E i \in DOMAIN items : items[i].k = "invalid" THEN Invalid
             ELSE JArr(items)

\* Vehicle built from the keyword mapping d.
Vehicle(d) ==
    LET make == validate_str(Field(d, "make"))
        model == validate_str(Field(d, "model"))
        year == validate_int(Field(d, "year"))
    IN  IF make.k = "invalid" \/ model.k = "invalid" \/ year.k = "invalid"
        THEN Invalid
        ELSE JObj([make |-> make, model |-> model, year |-> year])

\* DiagnosticReportResponse built from the keyword mapping d.
DiagnosticReportResponse(d) ==
    LET pp == ListOfProblem(Field(d, "potential_problems"))
        sv == Severity(Field(d, "severity"))
        ns == ListOfStr(Field(d, "next_steps"))
        ec == EstimatedCost(Field(d, "estimated_cost"))
        ds == ListOfStr(Field(d, "disclaimers"))
    IN  IF \E f \in {pp, sv, ns, ec, ds} : f.k = "invalid" THEN Invalid
        ELSE JObj([potential_problems |-> pp, severity |-> sv, next_steps |-> ns,
                   estimated_cost |-> ec, disclaimers |-> ds])

(* --------------------- llm_client.py: the gateway ---------------------- *)

Ops == {"conversation", "image", "vin", "text"}

ImageOps == {"image", "vin"}

DiagnoseOps == {"conversation", "image"}

get_diagnostic_from_llm_error ==
    "The diagnostic assistant failed to generate a valid response. Please try again."

get_image_diagnostic_from_llm_error ==
    "The diagnostic assistant failed to generate a valid response from the image."

get_vehicle_info_from_image_error ==
    "Could not identify the vehicle from the provided image. Please try again or enter manually."

get_vehicle_info_from_text_error ==
    "Could not identify the vehicle from the provided text. Please try again."

GatewayMessage(o) ==
    CASE o = "conversation" -> get_diagnostic_from_llm_error
      [] o = "image" -> get_image_diagnostic_from_llm_error
      [] o = "vin" -> get_vehicle_info_from_image_error
      [] o = "text" -> get_vehicle_info_from_text_error

\* The error structure a gateway function returns from its except branch.
Failure(o) == JObj([error |-> JStr(GatewayMessage(o))])

Whitespace == {" "}

RECURSIVE lstrip(_)
lstrip(t) == IF t # <<>> /\ Head(t) \in Whitespace THEN lstrip(Tail(t)) ELSE t

RECURSIVE rstrip(_)
rstrip(t) ==
    IF t # <<>> /\ t[Len(t)] \in Whitespace THEN rstrip(SubSeq(t, 1, Len(t) - 1)) ELSE t

\* str.strip()
strip(t) == rstrip(lstrip(t))

StartsWith(t, pat) == Len(t) >= Len(pat) /\ SubSeq(t, 1, Len(pat)) = pat

\* str.replace(pat, ""): the non-overlapping occurrences, found left to right.
RECURSIVE remove(_, _)
remove(t, pat) ==
    IF t = <<>> THEN <<>>
    ELSE IF StartsWith(t, pat) THEN remove(SubSeq(t, Len(pat) + 1, Len(t)), pat)
    ELSE <<Head(t)>> \o remove(Tail(t), pat)

\* The backtick, written as an apostrophe: a TLA+ string cannot hold a backtick.
Tick == "'"

\* The marker of three backticks followed by json.
FenceJson == <<Tick, Tick, Tick, "j", "s", "o", "n">>

\* The marker of three backticks.
Fence == <<Tick, Tick, Tick>>

\* The two replace calls in the other order.
StripFencesSwapped(t) == strip(remove(remove(strip(t), Fence), FenceJson))

\* response.text.strip().replace(FenceJson, "").replace(Fence, "").strip()
StripFences(t) == strip(remove(remove(strip(t), FenceJson), Fence))

RECURSIVE DigitsValue(_)
DigitsValue(t) == IF t = <<>> THEN 0 ELSE 10 * DigitsValue(SubSeq(t, 1, Len(t) - 1)) + 1

\* json.loads(t) over the characters of the model: the text of the document
\* alone is the document, a run of the digit 1 is an integer, and anything
\* else (the empty text included) raises JSONDecodeError.
json_loads(t, doc) ==
    IF t = <<"D">> THEN doc
    ELSE IF t # <<>> /\ \A i \in DOMAIN t : t[i] = "1" THEN JInt(DigitsValue(t))
    ELSE Invalid

\* What a gateway function hands back: ret is its return value, exc the
\* exception that left it ("none" when it returned).
Returned(x) == [ret |-> x, exc |-> "none"]

Raises(e) == [ret |-> Invalid, exc |-> e]

\* An except clause that names json.JSONDecodeError alone.
ParseCatchingDecodeOnly(o, rep) ==
    IF rep.attr # "text" THEN Raises("AttributeError")
    ELSE LET x == json_loads(StripFences(rep.text), rep.doc)
         IN  IF x.k = "invalid" THEN Returned(Failure(o)) ELSE Returned(x)

\* The try/except of a gateway function, applied to the reply rep: the
\* reply has a text (attr = "text"), has no text attribute at all
\* (attr = "notext") or has None for its text (attr = "none").
ParseReply(o, rep) ==
    IF rep.attr # "text" THEN Returned(Failure(o))
    ELSE LET x == json_loads(StripFences(rep.text), rep.doc)
         IN  IF x.k = "invalid" THEN Returned(Failure(o)) ELSE Returned(x)

get_diagnostic_from_llm(rep) == ParseReply("conversation", rep)

get_image_diagnostic_from_llm(rep) == ParseReply("image", rep)

get_vehicle_info_from_image(rep) == ParseReply("vin", rep)

get_vehicle_info_from_text(rep) == ParseReply("text", rep)

\* The part of gateway function o that follows the outbound call.
Gateway(o, rep) ==
    CASE o = "conversation" -> get_diagnostic_from_llm(rep)
      [] o = "image" -> get_image_diagnostic_from_llm(rep)
      [] o = "vin" -> get_vehicle_info_from_image(rep)
      [] o = "text" -> get_vehicle_info_from_text(rep)

(* ----------------------- main.py: the handlers ------------------------ *)

MalformedReport ==
    "Diagnostic assistant returned a malformed report. Please try again."

MalformedVehicle == "The assistant returned malformed vehicle data."

\* raise HTTPException(status_code, detail): no exception handler is
\* registered, so the framework answers with the body {"detail": detail}.
HTTPException(status_code, detail) ==
    [status |-> status_code, body |-> JObj([detail |-> detail]), exc |-> "none"]

\* return validated_model: serialised through the declared return type.
Success(model) == [status |-> 200, body |-> model, exc |-> "none"]

\* An exception e leaves the handler: the server answers 500 with the plain
\* text Internal Server Error.
Unhandled(e) == [status |-> 500, body |-> JStr("Internal Server Error"), exc |-> e]

NoResult == [status |-> 0, body |-> JNull, exc |-> "pending"]

\* The strings of the model that have "error" as a substring.
ContainsError(s) == s \in {"error", "an error occurred"}

\* The expression: "error" in llm_result, for a dict (a key), a list (an
\* item) or a str (a substring); any other value raises TypeError.
InSupported(x) == x.k \in {"obj", "arr", "str"}

ErrorIn(x) ==
    CASE x.k = "obj" -> "error" \in DOMAIN x.v
      [] x.k = "arr" -> \E i \in DOMAIN x.v : x.v[i] = JStr("error")
      [] x.k = "str" -> ContainsError(x.v)
      [] OTHER -> FALSE

\* The model call inside the try block, with the parsed value x unpacked
\* as keyword arguments: unpacking anything but a dict raises TypeError,
\* which fails like a validation error.
BuildReport(x) == IF x.k # "obj" THEN Invalid ELSE DiagnosticReportResponse(x.v)

BuildVehicle(x) == IF x.k # "obj" THEN Invalid ELSE Vehicle(x.v)

\* Steps 2 and 3 of a handler, applied to the gateway's return value x:
\* the error check, then the model m built from x inside
\* try/except Exception.
HandlerBody(x, m, malformed) ==
    IF ~InSupported(x) THEN Unhandled("TypeError")
    ELSE IF ErrorIn(x)
         THEN IF x.k = "obj" THEN HTTPException(500, x.v["error"])
              ELSE Unhandled("TypeError")
    ELSE IF m.k = "invalid" THEN HTTPException(500, JStr(malformed))
    ELSE Success(m)

diagnose_from_conversation(x) == HandlerBody(x, BuildReport(x), MalformedReport)

diagnose_from_image(x) == HandlerBody(x, BuildReport(x), MalformedReport)

identify_vehicle_from_image(x) == HandlerBody(x, BuildVehicle(x), MalformedVehicle)

\* The text handler building the report model instead of Vehicle.
identify_with_report_schema(x) == HandlerBody(x, BuildReport(x), MalformedVehicle)

identify_vehicle_from_text(x) == HandlerBody(x, BuildVehicle(x), MalformedVehicle)

Handler(o, x) ==
    CASE o = "conversation" -> diagnose_from_conversation(x)
      [] o = "image" -> diagnose_from_image(x)
      [] o = "vin" -> identify_vehicle_from_image(x)
      [] o = "text" -> identify_vehicle_from_text(x)

Malformed(o) == IF o \in DiagnoseOps THEN MalformedReport ELSE MalformedVehicle

(* ------------------ the LLM provider: possible replies ----------------- *)

MakeVals == {Missing, JStr("Toyota"), JInt(7)}

ModelVals == {Missing, JStr("Camry"), JNull}

YearVals == {Missing, JInt(2018), JStr("2018"), JStr("Camry"), JNull}

ErrorVals == {Missing, JStr("pwned"), JInt(5)}

FooVals == {Missing, JStr("bar")}

VehicleDocs ==
    {MkObj([make |-> a, model |-> b, year |-> c, error |-> e, foo |-> x]) :
        a \in MakeVals, b \in ModelVals, c \in YearVals, e \in ErrorVals, x \in FooVals}

ProblemOk ==
    JObj([name |-> JStr("Worn motor mount"), description |-> JStr("...")])

SeverityOf(l) == JObj([level |-> JStr(l), message |-> JStr("...")])

CostOk == JObj([range |-> JStr("$150-$400"), disclaimer |-> JStr("...")])

ProblemsVals ==
    {Missing, JArr(<<>>), JArr(<<ProblemOk>>), JArr(<<JObj([name |-> JStr("x")])>>),
     JStr("none")}

SeverityVals ==
    {Missing, JStr("CAUTION"), JObj([level |-> JStr("CAUTION")])}
        \cup {SeverityOf(l) : l \in SeverityLevels \cup {"HIGH"}}

NextStepsVals == {Missing, JArr(<<JStr("Inspect mounts")>>), JArr(<<JInt(1)>>)}

CostVals == {Missing, CostOk, JObj([range |-> JStr("$150-$400")])}

DisclaimersVals == {Missing, JArr(<<>>), JNull}

ReportDocs ==
    {MkObj([potential_problems |-> a, severity |-> b, next_steps |-> c,
            estimated_cost |-> d, disclaimers |-> e, error |-> f, foo |-> x]) :
        a \in ProblemsVals, b \in SeverityVals, c \in NextStepsVals, d \in CostVals,
        e \in DisclaimersVals, f \in {Missing, JStr("pwned")}, x \in FooVals}

OtherDocs ==
    {JNull, JBool(TRUE), JStr("boom"), JStr("an error occurred"), JArr(<<>>),
     JArr(<<JStr("error")>>)}

Docs == VehicleDocs \cup ReportDocs \cup OtherDocs

\* t wrapped in the json fence.
Wrap(t) == FenceJson \o t \o Fence

TextReply(t, d) == [attr |-> "text", text |-> t, doc |-> d]

DocTexts == {<<"D">>, Wrap(<<"D">>)}

PlainTexts ==
    {<<>>, <<" ">>, <<" ", " ">>, <<"1">>, Wrap(<<"1", "1">>), <<"D", "D">>,
     <<"j", "s", "o", "n">>, Fence, Fence \o <<" ", "D", " ">> \o Fence}

\* A reply without a text attribute, and a reply whose text is None.
AttrReplies == {[attr |-> a, text |-> <<>>, doc |-> JNull] : a \in {"notext", "none"}}

\* generate_content raised instead of returning a reply.
TransportError == [attr |-> "raise", text |-> <<>>, doc |-> JNull]

Pending == [attr |-> "pending", text |-> <<>>, doc |-> JNull]

Replies ==
    {TextReply(t, d) : t \in DocTexts, d \in Docs}
        \cup {TextReply(t, JNull) : t \in PlainTexts}
        \cup AttrReplies \cup {TransportError}

SampleVehicle ==
    JObj([make |-> JStr("Toyota"), model |-> JStr("Camry"), year |-> JInt(2018)])

SampleReport ==
    JObj([potential_problems |-> JArr(<<ProblemOk>>), severity |-> SeverityOf("CAUTION"),
          next_steps |-> JArr(<<JStr("Inspect mounts")>>), estimated_cost |-> CostOk,
          disclaimers |-> JArr(<<>>)])

\* The replies of the concurrent specification.
ConcReplies ==
    {TextReply(<<"D">>, SampleVehicle), TextReply(Wrap(<<"D">>), SampleReport),
     TextReply(<<>>, JNull), TransportError}

(* ------------------------- one request's steps ------------------------ *)

\* The gateway result kept in one module-level variable.
StoreResultShared(res, r, x) == [q \in Reqs |-> x]

\* llm_result = ...: a local variable of the handler's own call.
StoreResult(res, r, x) == [res EXCEPT ![r] = x]

\* A handler that calls the gateway again on its failure value.
RetryOnFailure(o, x) == IF x = Failure(o) THEN "send" ELSE "check"

\* Where the handler goes once its gateway function has returned x: on to
\* the error check, whatever x is (the except branch returns, it does not
\* call again).
AfterGateway(o, x) == "check"

\* Image.open(io.BytesIO(image_bytes)) comes before the outbound call and
\* raises on bytes that are no image.
AfterOpen(o, ok) == IF ok THEN "send" ELSE "done"

\* A request arrives: operation o, and for the image operations whether
\* the uploaded bytes are an image (ok).
Start(r, o, ok) ==
    /\ pc[r] = "idle"
    /\ o \in ImageOps \/ ok
    /\ op' = [op EXCEPT ![r] = o]
    /\ imageOk' = [imageOk EXCEPT ![r] = ok]
    /\ pc' = [pc EXCEPT ![r] = IF o \in ImageOps THEN "read" ELSE "send"]
    /\ UNCHANGED <<reply, llm_result, result, calls, fenceVars>>

\* image_bytes = await file.read()
ReadUpload(r) ==
    /\ pc[r] = "read"
    /\ pc' = [pc EXCEPT ![r] = "open"]
    /\ UNCHANGED <<op, imageOk, reply, llm_result, result, calls, fenceVars>>

\* The image gateway functions open the image first.
OpenImage(r) ==
    /\ pc[r] = "open"
    /\ pc' = [pc EXCEPT ![r] = AfterOpen(op[r], imageOk[r])]
    /\ result' = [result EXCEPT ![r] =
                    IF AfterOpen(op[r], imageOk[r]) = "done"
                    THEN Unhandled("UnidentifiedImageError") ELSE @]
    /\ UNCHANGED <<op, imageOk, reply, llm_result, calls, fenceVars>>

\* model.generate_content(...) is entered: the outbound call is issued.
Send(r) ==
    /\ pc[r] = "send"
    /\ calls[r] < MaxCalls
    /\ calls' = [calls EXCEPT ![r] = @ + 1]
    /\ pc' = [pc EXCEPT ![r] = "wait"]
    /\ UNCHANGED <<op, imageOk, reply, llm_result, result, fenceVars>>

\* model.generate_content(...) ends: it returns a reply of the provider
\* (one of pool), or raises, and nothing in the gateway or the handler
\* catches that.
Receive(r, pool) ==
    /\ pc[r] = "wait"
    /\ \E rep \in pool :
        /\ reply' = [reply EXCEPT ![r] = rep]
        /\ pc' = [pc EXCEPT ![r] = IF rep.attr = "raise" THEN "done" ELSE "parse"]
        /\ result' = [result EXCEPT ![r] =
                        IF rep.attr = "raise" THEN Unhandled("TransportError") ELSE @]
    /\ UNCHANGED <<op, imageOk, llm_result, calls, fenceVars>>

\* The try/except of the gateway function, and its return to the handler.
Parse(r) ==
    /\ pc[r] = "parse"
    /\ LET g == Gateway(op[r], reply[r])
       IN  IF g.exc = "none"
           THEN /\ llm_result' = StoreResult(llm_result, r, g.ret)
                /\ pc' = [pc EXCEPT ![r] = AfterGateway(op[r], g.ret)]
                /\ UNCHANGED result
           ELSE /\ result' = [result EXCEPT ![r] = Unhandled(g.exc)]
                /\ pc' = [pc EXCEPT ![r] = "done"]
                /\ UNCHANGED llm_result
    /\ UNCHANGED <<op, imageOk, reply, calls, fenceVars>>

\* The error check and the schema validation of the handler.
Respond(r) ==
    /\ pc[r] = "check"
    /\ result' = [result EXCEPT ![r] = Handler(op[r], llm_result[r])]
    /\ pc' = [pc EXCEPT ![r] = "done"]
    /\ UNCHANGED <<op, imageOk, reply, llm_result, calls, fenceVars>>

ReqInit ==
    /\ pc = [r \in Reqs |-> "idle"]
    /\ op = [r \in Reqs |-> "none"]
    /\ imageOk = [r \in Reqs |-> TRUE]
    /\ reply = [r \in Reqs |-> Pending]
    /\ llm_result = [r \in Reqs |-> Invalid]
    /\ result = [r \in Reqs |-> NoResult]
    /\ calls = [r \in Reqs |-> 0]

FenceOff ==
    /\ fStage = "off"
    /\ fOp = "none"
    /\ fText = <<>>
    /\ fDoc = JNull
    /\ fPlain = Invalid
    /\ fWrapped = Invalid
    /\ fOnce = <<>>
    /\ fTwice = <<>>

(* ------------- one request, every reply the provider can give ---------- *)

\* The one request of the specification Spec.
Solo == {1}

Init == ReqInit /\ FenceOff

Next ==
    \/ \E r \in Solo, o \in Ops, ok \in BOOLEAN : Start(r, o, ok)
    \/ \E r \in Solo : ReadUpload(r)
    \/ \E r \in Solo : OpenImage(r)
    \/ \E r \in Solo : Send(r)
    \/ \E r \in Solo : Receive(r, Replies)
    \/ \E r \in Solo : Parse(r)
    \/ \E r \in Solo : Respond(r)

Spec == Init /\ [][Next]_vars

(* ----------------- NReq requests served concurrently ------------------ *)

ConcNext ==
    \/ \E r \in Reqs, o \in Ops, ok \in BOOLEAN : Start(r, o, ok)
    \/ \E r \in Reqs : ReadUpload(r)
    \/ \E r \in Reqs : OpenImage(r)
    \/ \E r \in Reqs : Send(r)
    \/ \E r \in Reqs : Receive(r, ConcReplies)
    \/ \E r \in Reqs : Parse(r)
    \/ \E r \in Reqs : Respond(r)

SpecConc == Init /\ [][ConcNext]_vars

(* ------------------- fence stripping as a function -------------------- *)

Alphabet == {Tick, "j", "s", "o", "n", " ", "1", "D"}

Texts == UNION {[1..n -> Alphabet] : n \in 0..MaxLen}

FenceInit ==
    /\ ReqInit
    /\ fStage = "input"
    /\ fOp \in Ops
    /\ fText \in Texts
    /\ fDoc = SampleVehicle
    /\ fPlain = Invalid
    /\ fWrapped = Invalid
    /\ fOnce = <<>>
    /\ fTwice = <<>>

\* The gateway's try block applied to fText and to fText wrapped in the
\* fence, and the stripping applied once and twice to both.
StripStep ==
    /\ fStage = "input"
    /\ fStage' = "done"
    /\ fPlain' = Gateway(fOp, TextReply(fText, fDoc)).ret
    /\ fWrapped' = Gateway(fOp, TextReply(Wrap(fText), fDoc)).ret
    /\ fOnce' = <<StripFences(fText), StripFences(Wrap(fText))>>
    /\ fTwice' = <<StripFences(StripFences(fText)), StripFences(StripFences(Wrap(fText)))>>
    /\ UNCHANGED <<reqVars, fOp, fText, fDoc>>

FenceNext == StripStep

SpecFence == FenceInit /\ [][FenceNext]_vars

(* ------------------- the shapes of the data model --------------------- *)

IsStr(x) == x.k = "str"

IsStrList(x) == x.k = "arr" /\ \A i \in DOMAIN x.v : IsStr(x.v[i])

IsPair(x, a, b) ==
    x.k = "obj" /\ DOMAIN x.v = {a, b} /\ IsStr(x.v[a]) /\ IsStr(x.v[b])

IsVehicle(x) ==
    /\ x.k = "obj"
    /\ DOMAIN x.v = {"make", "model", "year"}
    /\ IsStr(x.v["make"])
    /\ IsStr(x.v["model"])
    /\ x.v["year"].k = "int"

IsReport(x) ==
    /\ x.k = "obj"
    /\ DOMAIN x.v = {"potential_problems", "severity", "next_steps", "estimated_cost",
                     "disclaimers"}
    /\ x.v["potential_problems"].k = "arr"
    /\ \A i \in DOMAIN x.v["potential_problems"].v :
          IsPair(x.v["potential_problems"].v[i], "name", "description")
    /\ IsPair(x.v["severity"], "level", "message")
    /\ x.v["severity"].v["level"].v \in {"CRITICAL", "CAUTION", "INFORMATION"}
    /\ IsStrList(x.v["next_steps"])
    /\ IsPair(x.v["estimated_cost"], "range", "disclaimer")
    /\ IsStrList(x.v["disclaimers"])

TargetShape(o, x) == IF o \in DiagnoseOps THEN IsReport(x) ELSE IsVehicle(x)

IsErrorPayload(x) == x.k = "obj" /\ DOMAIN x.v = {"error"} /\ IsStr(x.v["error"])

\* The JSON value the gateway parses from the reply rep (Invalid if none).
ParsedValue(rep) ==
    IF rep.attr = "text" THEN json_loads(StripFences(rep.text), rep.doc) ELSE Invalid

GatewayParsed(r) == ParsedValue(reply[r]).k # "invalid"

\* x is rejected by the target model of operation o, with all the leniency
\* of the validation (coerced values, extra keys): it is no object, a
\* required field is absent, or a field has a type that cannot be parsed.
Rejected(o, x) ==
    (IF o \in DiagnoseOps THEN BuildReport(x) ELSE BuildVehicle(x)).k = "invalid"

\* res is an error response of the handler whose body carries the text m.
CarriesMessage(res, m) ==
    /\ res.exc = "none"
    /\ res.status = 500
    /\ res.body.k = "obj"
    /\ \E key \in DOMAIN res.body.v : res.body.v[key] = JStr(m)

FixedMessages == {GatewayMessage(o) : o \in Ops} \cup {MalformedReport, MalformedVehicle}

\* The response of a request run on its own from start to end.
Sequential(o, ok, rep) ==
    IF o \in ImageOps /\ ~ok THEN Unhandled("UnidentifiedImageError")
    ELSE IF rep.attr = "raise" THEN Unhandled("TransportError")
    ELSE LET g == Gateway(o, rep)
         IN  IF g.exc # "none" THEN Unhandled(g.exc) ELSE Handler(o, g.ret)

(* ------------------------------ claims -------------------------------- *)

\* C1: whenever a handler produces a success response, its body satisfies
\* the target shape: DiagnosticReport for the diagnose operations, Vehicle
\* for the identify operations.
C1_SuccessBodyHasShape ==
    \A r \in Reqs :
        (pc[r] = "done" /\ result[r].status = 200)
            => (result[r].exc = "none" /\ TargetShape(op[r], result[r].body))

\* A success whose body is not the parsed value itself: validation coerced
\* a field or dropped a key on the way.
C1_Witness ==
    \E r \in Reqs :
        /\ pc[r] = "done"
        /\ result[r].status = 200
        /\ op[r] = "vin"
        /\ result[r].body # ParsedValue(reply[r])

\* C2: every parsed JSON value that does not satisfy the handler's target
\* shape ends in an error response carrying the fixed malformed message,
\* and no exception leaves the handler.
C2_MalformedAlwaysRejected ==
    \A r \in Reqs :
        (pc[r] = "done" /\ GatewayParsed(r) /\ Rejected(op[r], ParsedValue(reply[r])))
            => CarriesMessage(result[r], Malformed(op[r]))

\* C3: when the reply text is empty or blank, is not parseable after fence
\* stripping, or the reply has no text attribute, the gateway returns the
\* operation's failure value and raises nothing; the four messages are
\* pairwise distinct.
C3_UnusableReplyIsFailure ==
    /\ Cardinality({GatewayMessage(o) : o \in Ops}) = 4
    /\ \A r \in Reqs :
        (pc[r] \in {"check", "done"} /\ reply[r].attr \in {"text", "notext", "none"}
            /\ ~GatewayParsed(r))
            => (llm_result[r] = Failure(op[r])
                /\ (pc[r] = "done" => result[r].exc = "none"))

\* The gateway has returned the failure value for a reply without text.
C3_Witness ==
    \E r \in Reqs :
        /\ pc[r] = "check"
        /\ reply[r].attr = "notext"
        /\ llm_result[r] = Failure(op[r])

\* C4: when the outbound call raises a transport error, the handler
\* answers with the operation's gateway-failure message.
C4_TransportErrorIsGatewayFailure ==
    \A r \in Reqs :
        (pc[r] = "done" /\ reply[r].attr = "raise")
            => CarriesMessage(result[r], GatewayMessage(op[r]))

\* C5: every error response of a handler has server-error status and a
\* body of the ErrorPayload shape, an object with the one field error.
C5_FailuresAreErrorPayloads ==
    \A r \in Reqs :
        (pc[r] = "done" /\ result[r].exc = "none" /\ result[r].status # 200)
            => (result[r].status = 500 /\ IsErrorPayload(result[r].body))

\* C6: the gateway result for a text wrapped in the json fence equals the
\* result for the text itself, and stripping twice equals stripping once.
C6_FenceStripping ==
    fStage = "done" => (fWrapped = fPlain /\ fTwice = fOnce)

\* A text holding a backtick whose stripped form parses to the document.
C6_Witness ==
    /\ fStage = "done"
    /\ fPlain = fDoc
    /\ \E i \in DOMAIN fText : fText[i] = Tick

\* C7: a parsed object that conforms to the target shape is returned
\* unchanged with success status.
C7_ConformingReturnedUnchanged ==
    \A r \in Reqs :
        (pc[r] = "done" /\ GatewayParsed(r) /\ TargetShape(op[r], ParsedValue(reply[r])))
            => result[r] = Success(ParsedValue(reply[r]))

\* The identify-from-text handler has returned the conforming vehicle.
C7_Witness ==
    \E r \in Reqs :
        /\ pc[r] = "done"
        /\ op[r] = "text"
        /\ ParsedValue(reply[r]) = SampleVehicle
        /\ result[r] = Success(SampleVehicle)

\* C8: the error text is the operation's gateway-failure message exactly
\* when the gateway parsed no JSON, the malformed message whenever it did
\* parse a value, and always one of the fixed messages of the program.
C8_FailureKindDecidesText ==
    \A r \in Reqs :
        (pc[r] = "done" /\ result[r].exc = "none" /\ result[r].status = 500)
            => /\ \E m \in FixedMessages : CarriesMessage(result[r], m)
               /\ GatewayParsed(r) => CarriesMessage(result[r], Malformed(op[r]))
               /\ ~GatewayParsed(r) => CarriesMessage(result[r], GatewayMessage(op[r]))

\* C9 as stated: once a gateway function has returned or failed, it has
\* issued exactly one outbound call.
C9_ExactlyOneCall ==
    \A r \in Reqs : pc[r] \in {"check", "done"} => calls[r] = 1

\* C9 as amended: never more than one outbound call, and once a gateway
\* function has returned or failed exactly one, except that an image
\* gateway given bytes that are no image has issued none.
C9_AtMostOneCall ==
    \A r \in Reqs :
        /\ calls[r] <= 1
        /\ pc[r] \in {"check", "done"}
            => calls[r] = (IF op[r] \in ImageOps /\ ~imageOk[r] THEN 0 ELSE 1)

\* An image gateway has returned its failure value after one call.
C9_Witness ==
    \E r \in Reqs :
        /\ pc[r] = "check"
        /\ op[r] \in ImageOps
        /\ llm_result[r] = Failure(op[r])
        /\ calls[r] = 1

\* C10: under every interleaving, what a request holds and answers is what
\* it would hold and answer run on its own with its input and its reply.
C10_RequestsIndependent ==
    \A r \in Reqs :
        /\ pc[r] = "check" => llm_result[r] = Gateway(op[r], reply[r]).ret
        /\ pc[r] = "done" => result[r] = Sequential(op[r], imageOk[r], reply[r])

\* Two requests are between gateway and validation at once, each holding
\* a different gateway result.
C10_Witness ==
    \E r, q \in Reqs :
        /\ r # q
        /\ pc[r] = "check"
        /\ pc[q] = "check"
        /\ llm_result[r] # llm_result[q]

====
